---- MODULE Spec2Model ----
(***************************************************************************)
(* Model of the two notebooks of the source file.                          *)
(*                                                                         *)
(* Fe sediment flux notebook: the model output is read, the sediment       *)
(* fraction is read, the 3D topography mask is built, the land-adjacent    *)
(* points are determined from KMT at the eight adjoining cells,            *)
(* land_adj_sedfrac_min is applied, the POC flux and the current speed are *)
(* prepared, the reducing and oxic fluxes are computed and the output file *)
(* is written.  Spec is the grid part of it on every small grid, SpecFlux  *)
(* the whole notebook on two-column grids.                                 *)
(*                                                                         *)
(* Initial-conditions notebook: the 3D mask is built and each tracer is    *)
(* regridded, filled laterally, filled vertically and stored (SpecIC);     *)
(* the tracers not yet stored are then copied from the restart file, with  *)
(* the floor values that are 0.0 set to the value one layer shallower      *)
(* (SpecRestart).  SpecMask runs the mask cells of both notebooks.         *)
(*                                                                         *)
(* Arrays are sequences, so the code's index 0 is the model's index 1:     *)
(* the code's A[k, j, i] is the model's A[k+1][j+1][i+1].  Fractions are   *)
(* integers in units of 1e-3 (0.03 is 30).                                 *)
(***************************************************************************)
EXTENDS Integers, Sequences, FiniteSets, TLC

VARIABLES dst_grid, nk, KMT, pc, sedfrac, MASK, kmt_neighbors,
          land_adjacent, sedfrac_mod,
          todo, tracer_full_regrid, lateral_filled, ds_out, warned, calls,
          ds_refcase,
          input_cached, files_present, sedfrac_z_t,
          current_speed_min, current_speed_max,
          POC_FLUX_IN, UVEL, VVEL, POC_flux, fesedflux_reduce, current_speed,
          fesedflux_oxic, fesedflux_total, file_out

\* the names of the initial-conditions notebook's tracer loop and of its
\* copy from the restart file
icvars == <<todo, tracer_full_regrid, lateral_filled, ds_out, warned, calls,
            ds_refcase>>

\* what the sediment flux notebook finds on disk and in its settings, and
\* the names of its flux cells
fluxvars == <<input_cached, files_present, sedfrac_z_t,
              current_speed_min, current_speed_max,
              POC_FLUX_IN, UVEL, VVEL, POC_flux, fesedflux_reduce,
              current_speed, fesedflux_oxic, fesedflux_total, file_out>>

vars == <<dst_grid, nk, KMT, pc, sedfrac, MASK, kmt_neighbors,
          land_adjacent, sedfrac_mod, icvars, fluxvars>>

---------------------------------------------------------------------------
(* Bounds of the model. *)

\* largest number of rows (nlat) of an enumerated grid
MaxNj == 3

\* largest number of columns (nlon) of an enumerated grid
MaxNi == 3

\* largest number of horizontal cells nj*ni of an enumerated grid
MaxCells == 6

\* largest number of vertical levels len(z_t) of an enumerated grid
MaxNk == 2

\* largest number of vertical levels of a grid of the initial-conditions
\* notebook
IcMaxNk == 3

---------------------------------------------------------------------------
(* Values *)

\* the floating-point missing value; it compares false with everything
NaN == 0 - 1

\* a name that has not been assigned yet in the notebook's namespace
Unassigned == <<>>

\* a < b on floats: false when either side is NaN
Less(a, b) == a # NaN /\ b # NaN /\ a < b

\* DataArray.fillna(0.)
FillNa0(x) == IF x = NaN THEN 0 ELSE x

\* DataArray.notnull()
NotNull(x) == x # NaN

Min2(a, b) == IF a <= b THEN a ELSE b

---------------------------------------------------------------------------
(* Configuration cell: what dst_grid selects *)

DstGrids == {"POP_gx1v7", "POP_gx3v7", "POP_tx0.1v3"}

land_adj_sedfrac_min ==
    IF dst_grid = "POP_gx1v7" THEN 30
    ELSE IF dst_grid = "POP_gx3v7" THEN 15
    ELSE 30

ltripole == dst_grid = "POP_tx0.1v3"

---------------------------------------------------------------------------
(* Shapes *)

\* nj, ni = ds.KMT.shape
nj == Len(KMT)

ni == Len(KMT[1])

\* ZERO_TO_KM[k, j, i] = k
ZERO_TO_KM == [k \in 1..nk |-> [j \in 1..nj |-> [i \in 1..ni |-> k - 1]]]

---------------------------------------------------------------------------
(* Sediment fraction: read, zero on land columns *)

\* values found in the precomputed sedfrac file
SedSeq == <<NaN, 10, 30, 50>>

\* a file content: the values of SedSeq laid out over the grid from an offset
SedfracFile(seed) ==
    [k \in 1..nk |-> [j \in 1..nj |-> [i \in 1..ni |->
        SedSeq[((k + j + i + seed) % Len(SedSeq)) + 1]]]]

\* ds.z_t: the depth of the mid-point of each level, in cm
z_t == [k \in 1..nk |-> IF k = 1 THEN 500 ELSE 50000 * (k - 1)]

\* the z_t a sediment fraction file can carry: that of ds, or another one
SedfracZtChoices == {z_t, [k \in 1..nk |-> z_t[k] + 1000]}

AssertAllclose_Off(actual, desired) == TRUE

\* np.testing.assert_allclose(actual, desired) passes
AssertAllclose(actual, desired) == actual = desired

\* sedfrac = sedfrac.where(ds.KMT > 0).fillna(0.)
SedfracOnOcean(file) ==
    [k \in 1..nk |-> [j \in 1..nj |-> [i \in 1..ni |->
        FillNa0(IF KMT[j][i] > 0 THEN file[k][j][i] ELSE NaN)]]]

---------------------------------------------------------------------------
(* 3D topography mask *)

\* MASK = ZERO_TO_KM.where(ZERO_TO_KM < ds.KMT)
MaskWhere ==
    [k \in 1..nk |-> [j \in 1..nj |-> [i \in 1..ni |->
        IF ZERO_TO_KM[k][j][i] < KMT[j][i] THEN ZERO_TO_KM[k][j][i] ELSE NaN]]]

\* MASK = xr.where(MASK.notnull(), 1., 0.)
ComputeMask ==
    [k \in 1..nk |-> [j \in 1..nj |-> [i \in 1..ni |->
        IF NotNull(MaskWhere[k][j][i]) THEN 1 ELSE 0]]]

---------------------------------------------------------------------------
(* KMT at the eight adjoining cells *)

\* the (iroll, jroll) pairs of product([-1, 0, 1], [-1, 0, 1]) in order,
\* without (0, 0)
Rolls ==
    << [iroll |-> -1, jroll |-> -1], [iroll |-> -1, jroll |-> 0],
       [iroll |-> -1, jroll |-> 1],  [iroll |-> 0,  jroll |-> -1],
       [iroll |-> 0,  jroll |-> 1],  [iroll |-> 1,  jroll |-> -1],
       [iroll |-> 1,  jroll |-> 0],  [iroll |-> 1,  jroll |-> 1] >>

\* a roll that repeats the edge value instead of wrapping around
RollSeq_Edge(s, shift) ==
    IF shift = 0 THEN s
    ELSE IF shift = 1 THEN <<s[1]>> \o SubSeq(s, 1, Len(s) - 1)
    ELSE Tail(s) \o <<s[Len(s)]>>

\* roll of a 1D array by shift in {-1, 0, 1}: elements that roll beyond the
\* last position are re-introduced at the first
RollSeq(s, shift) ==
    IF shift = 0 THEN s
    ELSE IF shift = 1 THEN <<s[Len(s)]>> \o SubSeq(s, 1, Len(s) - 1)
    ELSE Tail(s) \o <<s[1]>>

\* a roll that leaves the longitude as it is
Roll2D_NoLon(A, jroll, iroll) == RollSeq(A, jroll)

\* A.roll(nlat=jroll, nlon=iroll, roll_coords=False)
Roll2D(A, jroll, iroll) ==
    RollSeq([j \in 1..Len(A) |-> RollSeq(A[j], iroll)], jroll)

\* kmt_rollable[::-1, :] : all the rows, in reverse order
RowsReversed(kmt) == [j \in 1..Len(kmt) |-> kmt[Len(kmt) + 1 - j]]

\* row[::-1]
Flip(row) == [i \in 1..Len(row) |-> row[Len(row) + 1 - i]]

\* kmt[0, :] = value, through the DataArray that aliases ds.KMT: a value of
\* more dimensions than the selected row raises ValueError before any data
\* is written; otherwise row 0 of the shared array is overwritten
AssignRow0(kmt, value, value_ndim) ==
    IF value_ndim > 1
    THEN [raised |-> TRUE, KMT |-> kmt]
    ELSE [raised |-> FALSE, KMT |-> [kmt EXCEPT ![1] = value]]

\* row 0 overwritten in place by the last row flipped left-to-right
TripoleFold_InPlace(kmt) == AssignRow0(kmt, Flip(kmt[Len(kmt)]), 1)

\* if ltripole: kmt_rollable[0, :] = kmt_rollable[::-1, :]
TripoleFold(kmt) == AssignRow0(kmt, RowsReversed(kmt), 2)

\* kmt_rollable = ds.KMT (the same array, not a copy), then the fold
FoldResult ==
    IF ltripole THEN TripoleFold(KMT) ELSE [raised |-> FALSE, KMT |-> KMT]

\* kmt_neighbors[:, :, n] = kmt_rollable.roll(nlat=jroll, nlon=iroll)
KmtNeighbors(kmt_rollable) ==
    LET rolled == [n \in 1..Len(Rolls) |->
                     Roll2D(kmt_rollable, Rolls[n].jroll, Rolls[n].iroll)]
    IN [j \in 1..Len(kmt_rollable) |-> [i \in 1..Len(kmt_rollable[1]) |->
          [n \in 1..Len(Rolls) |-> rolled[n][j][i]]]]

---------------------------------------------------------------------------
(* Land-adjacent points *)

\* side_wall_present = (kmt_neighbors <= ds.KMT).any(dim='corner')
SideWallPresent(nbrs, kmt) ==
    [j \in 1..Len(kmt) |-> [i \in 1..Len(kmt[1]) |->
        \E n \in 1..Len(Rolls) : nbrs[j][i][n] <= kmt[j][i]]]

Max2(a, b) == IF a >= b THEN a ELSE b

RECURSIVE MaxOver(_, _)
MaxOver(s, n) == IF n = 1 THEN s[1] ELSE Max2(MaxOver(s, n - 1), s[n])

RECURSIVE MinOver(_, _)
MinOver(s, n) == IF n = 1 THEN s[1] ELSE Min2(MinOver(s, n - 1), s[n])

\* the largest neighbour depth taken instead of the smallest
SideWallKmtMin_Max(nbrs) ==
    [j \in 1..Len(nbrs) |-> [i \in 1..Len(nbrs[1]) |->
        MaxOver(nbrs[j][i], Len(Rolls))]]

\* side_wall_kmt_min = (kmt_neighbors).min(dim='corner').astype(np.int)
SideWallKmtMin(nbrs) ==
    [j \in 1..Len(nbrs) |-> [i \in 1..Len(nbrs[1]) |->
        MinOver(nbrs[j][i], Len(Rolls))]]

\* the condition without the test that the level is inside the water column
LandAdjacentCond_NoMask(z, present, kmt_min, kmt) ==
    (present /\ z >= kmt_min) \/ (z = kmt - 1)

\* the condition without the lower bound on the level
LandAdjacentCond_NoMin(z, present, kmt_min, kmt) ==
    (present /\ z < kmt) \/ (z = kmt - 1)

\* the bottom-most cell taken at level KMT instead of KMT-1
LandAdjacentCond_OffByOne(z, present, kmt_min, kmt) ==
    (present /\ z < kmt /\ z >= kmt_min) \/ (z = kmt)

\* the condition without the bottom-most cell
LandAdjacentCond_NoBottom(z, present, kmt_min, kmt) ==
    present /\ z < kmt /\ z >= kmt_min

\* (side_wall_present & (ZERO_TO_KM < ds.KMT) & (ZERO_TO_KM >= side_wall_kmt_min))
\*   | (ZERO_TO_KM == ds.KMT-1)
LandAdjacentCond(z, present, kmt_min, kmt) ==
    (present /\ z < kmt /\ z >= kmt_min) \/ (z = kmt - 1)

\* land_adjacent = xr.zeros_like(MASK).where(cond);
\* land_adjacent = xr.where(land_adjacent.notnull(), 1., 0.)
LandAdjacent(nbrs, kmt) ==
    LET present == SideWallPresent(nbrs, kmt)
        kmt_min == SideWallKmtMin(nbrs)
        kept    == [k \in 1..nk |-> [j \in 1..Len(kmt) |-> [i \in 1..Len(kmt[1]) |->
                      IF LandAdjacentCond(ZERO_TO_KM[k][j][i], present[j][i],
                                          kmt_min[j][i], kmt[j][i])
                      THEN 0 ELSE NaN]]]
    IN [k \in 1..nk |-> [j \in 1..Len(kmt) |-> [i \in 1..Len(kmt[1]) |->
          IF NotNull(kept[k][j][i]) THEN 1 ELSE 0]]]

---------------------------------------------------------------------------
(* Apply land_adj_sedfrac_min *)

\* the floor applied but the cells outside the mask left as they are
SedfracMod_NoMask(la, sed, mask, floor) ==
    [k \in 1..Len(sed) |-> [j \in 1..Len(sed[1]) |-> [i \in 1..Len(sed[1][1]) |->
        IF la[k][j][i] = 1 /\ Less(sed[k][j][i], floor)
        THEN floor ELSE sed[k][j][i]]]]

\* sedfrac_mod = xr.where((land_adjacent==1.) & (sedfrac < land_adj_sedfrac_min),
\*                        land_adj_sedfrac_min, sedfrac)
\* sedfrac_mod = sedfrac_mod.where(MASK==1.).fillna(0.)
SedfracMod(la, sed, mask, floor) ==
    [k \in 1..Len(sed) |-> [j \in 1..Len(sed[1]) |-> [i \in 1..Len(sed[1][1]) |->
        LET floored == IF la[k][j][i] = 1 /\ Less(sed[k][j][i], floor)
                       THEN floor ELSE sed[k][j][i]
        IN FillNa0(IF mask[k][j][i] = 1 THEN floored ELSE NaN)]]]

---------------------------------------------------------------------------
(* Initial states: the configuration cell has run and ds has been read *)

\* the tracer loop's names before the initial-conditions notebook has run
IcUnassigned ==
    /\ todo = <<>>
    /\ tracer_full_regrid = Unassigned
    /\ lateral_filled = Unassigned
    /\ ds_out = <<>>
    /\ warned = <<>>
    /\ calls = <<>>
    /\ ds_refcase = Unassigned

\* the input variables of the notebook
variables == {"POC_FLUX_IN", "UVEL", "VVEL"}

\* the names of the flux cells before they have run
FluxUnassigned ==
    /\ POC_FLUX_IN = Unassigned
    /\ UVEL = Unassigned
    /\ VVEL = Unassigned
    /\ POC_flux = Unassigned
    /\ fesedflux_reduce = Unassigned
    /\ current_speed = Unassigned
    /\ fesedflux_oxic = Unassigned
    /\ fesedflux_total = Unassigned
    /\ file_out = Unassigned

\* the settings of the configuration cell, a cached input file and a
\* sediment fraction file on the z_t of ds
AsShipped ==
    /\ input_cached = TRUE
    /\ files_present = variables
    /\ sedfrac_z_t = z_t
    /\ current_speed_min = 1
    /\ current_speed_max = 10
    /\ FluxUnassigned

\* the grids that are enumerated: every KMT of every small shape
Shapes ==
    {s \in (1..MaxNj) \X (1..MaxNi) : s[1] * s[2] <= MaxCells}

GridsOfShape(s, levels) == [1..s[1] -> [1..s[2] -> 0..levels]]

\* the grid of the end-to-end scenario: three levels, a single deep column at
\* the centre
Fixture == [nk |-> 3, KMT |-> << <<1, 1, 1>>, <<1, 2, 1>>, <<1, 1, 1>> >>]

Init ==
    /\ dst_grid \in DstGrids
    /\ \/ /\ nk \in 1..MaxNk
          /\ \E s \in Shapes : KMT \in GridsOfShape(s, nk)
       \/ /\ nk = Fixture.nk
          /\ KMT = Fixture.KMT
    /\ pc = "setup"
    /\ sedfrac = Unassigned
    /\ MASK = Unassigned
    /\ kmt_neighbors = Unassigned
    /\ land_adjacent = Unassigned
    /\ sedfrac_mod = Unassigned
    /\ IcUnassigned
    /\ AsShipped

---------------------------------------------------------------------------
(* The cells of the notebook, in order *)

\* cell "Read pre-computed fesedfrac"
CellReadSedfrac ==
    /\ pc = "setup"
    /\ AssertAllclose(sedfrac_z_t, z_t)
    /\ \E seed \in 0..(Len(SedSeq) - 1) :
          sedfrac' = SedfracOnOcean(SedfracFile(seed))
    /\ pc' = "sedfrac"
    /\ UNCHANGED <<dst_grid, nk, KMT, MASK, kmt_neighbors, land_adjacent, sedfrac_mod>>
    /\ UNCHANGED <<icvars, fluxvars>>

\* cell "Compute a 3D topography mask"
CellMask ==
    /\ pc = "sedfrac"
    /\ MASK' = ComputeMask
    /\ pc' = "MASK"
    /\ UNCHANGED <<dst_grid, nk, KMT, sedfrac, kmt_neighbors, land_adjacent, sedfrac_mod>>
    /\ UNCHANGED <<icvars, fluxvars>>

\* cell "Construct an array of KMT at all eight adjoining grid cells":
\* the fold, the eight rolls and the classification
CellLandAdjacent ==
    /\ pc = "MASK"
    /\ ~FoldResult.raised
    /\ KMT' = FoldResult.KMT
    /\ kmt_neighbors' = KmtNeighbors(FoldResult.KMT)
    /\ land_adjacent' = LandAdjacent(kmt_neighbors', KMT')
    /\ pc' = "land_adjacent"
    /\ UNCHANGED <<dst_grid, nk, sedfrac, MASK, sedfrac_mod>>
    /\ UNCHANGED <<icvars, fluxvars>>

\* the same cell when the fold raises: the cell stops there, kmt_neighbors is
\* still the unfilled np.empty array and land_adjacent is never assigned
CellLandAdjacentRaises ==
    /\ pc = "MASK"
    /\ FoldResult.raised
    /\ KMT' = FoldResult.KMT
    /\ pc' = "ValueError"
    /\ UNCHANGED <<dst_grid, nk, sedfrac, MASK, kmt_neighbors, land_adjacent, sedfrac_mod>>
    /\ UNCHANGED <<icvars, fluxvars>>

\* cell "Apply land_adj_sedfrac_min"
CellApplyFloor ==
    /\ pc = "land_adjacent"
    /\ sedfrac_mod' = SedfracMod(land_adjacent, sedfrac, MASK, land_adj_sedfrac_min)
    /\ pc' = "sedfrac_mod"
    /\ UNCHANGED <<dst_grid, nk, KMT, sedfrac, MASK, kmt_neighbors, land_adjacent>>
    /\ UNCHANGED <<icvars, fluxvars>>

Next ==
    \/ CellReadSedfrac
    \/ CellMask
    \/ CellLandAdjacent
    \/ CellLandAdjacentRaises
    \/ CellApplyFloor

Spec == Init /\ [][Next]_vars

---------------------------------------------------------------------------
(* The initial-conditions notebook: the 3D mask, and for each tracer the   *)
(* regridding, the lateral fill, the vertical fill and the store.          *)

\* the keys of omip_metadata in the order of the loop; the first two of the
\* eight stand for all of them, the body of the loop being the same for each
omip_metadata == <<"TEMP", "SALT">>

\* ltripole of the initial-conditions notebook
ltripole_IC == FALSE

\* the horizontal shape (nj, ni) of the grids of the initial-conditions
\* notebook: the fills work column by column, two columns show that a
\* column without gaps is left alone while another is being filled
IcShape == <<1, 2>>

ComputeMaskIC_Inclusive ==
    [k \in 1..nk |-> [j \in 1..nj |-> [i \in 1..ni |->
        ZERO_TO_KM[k][j][i] <= KMT[j][i]]]]

\* MASK of the initial-conditions notebook: ZERO_TO_KM.where(ZERO_TO_KM < KMT),
\* then True where that is not null and False elsewhere
ComputeMaskIC ==
    [k \in 1..nk |-> [j \in 1..nj |-> [i \in 1..ni |->
        LET where == IF ZERO_TO_KM[k][j][i] < KMT[j][i]
                     THEN ZERO_TO_KM[k][j][i] ELSE NaN
        IN  NotNull(where)]]]

Cells3D == (1..nk) \X (1..nj) \X (1..ni)

\* the cells where a boolean 3D array is True
TrueCells(B) == {c \in Cells3D : B[c[1]][c[2]][c[3]]}

\* the value the remapping gives a cell that has source data: one value per
\* cell, so that a value says where it came from
RegridValue(k, j, i) == 100 * k + 10 * j + i

\* tracer_full_regrid after the lateral and vertical remapping and
\* .where(MASK); missing is the set of cells the remapping left without data
Regrid(missing) ==
    [k \in 1..nk |-> [j \in 1..nj |-> [i \in 1..ni |->
        IF MASK[k][j][i] /\ <<k, j, i>> \notin missing
        THEN RegridValue(k, j, i) ELSE NaN]]]

\* the valid cells of one level: inside the mask and not missing
ValidAt(field, mask, k) ==
    {c \in (1..Len(field[k])) \X (1..Len(field[k][1])) :
        mask[k][c[1]][c[2]] /\ field[k][c[1]][c[2]] # NaN}

RECURSIVE SumAt(_, _, _)
SumAt(field, k, S) ==
    IF S = {} THEN 0
    ELSE LET c == CHOOSE x \in S : TRUE
         IN  field[k][c[1]][c[2]] + SumAt(field, k, S \ {c})

\* pop_tools.lateral_fill(field, mask, ltripole): level by level, a missing
\* cell of the mask takes the average of the valid cells it is connected to
\* on that level; a level without any valid cell is left as it is.  On the
\* grids of IcShape all cells of a level adjoin each other.
LateralFill(field, mask, tripole) ==
    [k \in 1..Len(field) |->
        LET valid == ValidAt(field, mask, k)
        IN  [j \in 1..Len(field[k]) |-> [i \in 1..Len(field[k][j]) |->
                IF mask[k][j][i] /\ field[k][j][i] = NaN /\ valid # {}
                THEN SumAt(field, k, valid) \div Cardinality(valid)
                ELSE field[k][j][i]]]]

\* the arguments line 280 passes to the lateral fill after the field
LateralFillArgs == [mask |-> MASK, ltripole |-> ltripole_IC]

\* unfilled = field.isnull() & (MASK == 1.)
Unfilled(field, mask) ==
    [k \in 1..Len(field) |-> [j \in 1..Len(field[k]) |->
        [i \in 1..Len(field[k][j]) |-> field[k][j][i] = NaN /\ mask[k][j][i]]]]

\* DataArray.any()
AnyTrue(B) == \E k \in 1..Len(B) : \E j \in 1..Len(B[k]) :
              \E i \in 1..Len(B[k][j]) : B[k][j][i]

\* every missing cell of the level taken from the level above, whether it is
\* inside the ocean mask or not
FillLevel_AnyMissing(field, unfilled, k) ==
    [j \in 1..Len(field[k]) |-> [i \in 1..Len(field[k][j]) |->
        IF field[k][j][i] = NaN THEN field[k - 1][j][i] ELSE field[k][j][i]]]

\* the right-hand side of lines 286-288 for the level with model index k:
\* xr.where(unfilled[k], field[k-1], field[k])
FillLevel(field, unfilled, k) ==
    [j \in 1..Len(field[k]) |-> [i \in 1..Len(field[k][j]) |->
        IF unfilled[k][j][i] THEN field[k - 1][j][i] ELSE field[k][j][i]]]

\* the iterations of the loop from model index k on, each one assigning its
\* level in the field the next one reads
RECURSIVE FillFrom(_, _, _)
FillFrom(field, unfilled, k) ==
    IF k > Len(field) THEN field
    ELSE FillFrom([field EXCEPT ![k] = FillLevel(field, unfilled, k)],
                  unfilled, k + 1)

VerticalFillLoop_SkipLast(field, unfilled) ==
    [k \in 1..Len(field) |->
        IF k = Len(field) /\ k > 2 THEN field[k]
        ELSE FillFrom(field, unfilled, 2)[k]]

VerticalFillLoop_NoCarry(field, unfilled) ==
    [k \in 1..Len(field) |->
        IF k = 1 THEN field[k] ELSE FillLevel(field, unfilled, k)]

\* for k in range(1, nk): the code's k = 1 is the model's index 2
VerticalFillLoop(field, unfilled) == FillFrom(field, unfilled, 2)

\* lines 283-288: unfilled is computed once, the loop runs if any cell is
\* unfilled
VerticalFill(field, mask) ==
    LET unfilled == Unfilled(field, mask)
    IN  IF AnyTrue(unfilled) THEN VerticalFillLoop(field, unfilled) ELSE field

StillMissing_BeforeFill(before, after, mask) == AnyTrue(Unfilled(before, mask))

\* the condition of the warning, lines 284 and 289, given the field before
\* and after the vertical fill
StillMissing(before, after, mask) ==
    AnyTrue(Unfilled(before, mask)) /\ AnyTrue(Unfilled(after, mask))

\* the tracer of the current iteration
tracername == Head(todo)

\* ds_out[name] = field
Stored(ds, name, field) ==
    [t \in (DOMAIN ds) \cup {name} |-> IF t = name THEN field ELSE ds[t]]

InitIC ==
    /\ dst_grid = "POP_gx1v7"
    /\ nk \in 1..IcMaxNk
    /\ KMT \in GridsOfShape(IcShape, nk)
    /\ pc = "ic_grid"
    /\ sedfrac = Unassigned
    /\ MASK = Unassigned
    /\ kmt_neighbors = Unassigned
    /\ land_adjacent = Unassigned
    /\ sedfrac_mod = Unassigned
    /\ todo = omip_metadata
    /\ tracer_full_regrid = Unassigned
    /\ lateral_filled = Unassigned
    /\ ds_out = <<>>
    /\ warned = <<>>
    /\ calls = <<>>
    /\ ds_refcase = Unassigned
    /\ AsShipped

FeUnchanged ==
    UNCHANGED <<dst_grid, nk, KMT, sedfrac, kmt_neighbors, land_adjacent,
                sedfrac_mod, fluxvars>>

\* cell "generate output grid 3D mask"
CellMaskIC ==
    /\ pc = "ic_grid"
    /\ MASK' = ComputeMaskIC
    /\ pc' = "tracer_loop"
    /\ FeUnchanged
    /\ UNCHANGED icvars

\* lines 245-276: the next tracer is read and remapped
LoopRegrid ==
    /\ pc = "tracer_loop"
    /\ todo # <<>>
    /\ \E missing \in SUBSET TrueCells(MASK) :
          tracer_full_regrid' = Regrid(missing)
    /\ calls' = Append(calls, [op |-> "regrid", tracer |-> tracername])
    /\ pc' = "regridded"
    /\ FeUnchanged
    /\ UNCHANGED <<MASK, todo, lateral_filled, ds_out, warned, ds_refcase>>

\* line 280
LoopLateralFill ==
    /\ pc = "regridded"
    /\ tracer_full_regrid' =
          LateralFill(tracer_full_regrid, LateralFillArgs.mask,
                      LateralFillArgs.ltripole)
    /\ lateral_filled' = tracer_full_regrid'
    /\ calls' = Append(calls, [op |-> "lateral_fill", tracer |-> tracername,
                               args |-> LateralFillArgs])
    /\ pc' = "lateral_filled"
    /\ FeUnchanged
    /\ UNCHANGED <<MASK, todo, ds_out, warned, ds_refcase>>

\* lines 283-290: the vertical fill and the warning
LoopVerticalFill ==
    /\ pc = "lateral_filled"
    /\ tracer_full_regrid' = VerticalFill(tracer_full_regrid, MASK)
    /\ warned' = IF StillMissing(tracer_full_regrid, tracer_full_regrid', MASK)
                 THEN Append(warned, tracername) ELSE warned
    /\ calls' = Append(calls, [op |-> "vertical_fill", tracer |-> tracername])
    /\ pc' = "vertical_filled"
    /\ FeUnchanged
    /\ UNCHANGED <<MASK, todo, lateral_filled, ds_out, ds_refcase>>

LoopStore_BeforeVerticalFill ==
    /\ pc = "lateral_filled"
    /\ ds_out' = Stored(ds_out, tracername, tracer_full_regrid)
    /\ calls' = Append(calls, [op |-> "store", tracer |-> tracername])
    /\ todo' = Tail(todo)
    /\ pc' = "tracer_loop"
    /\ FeUnchanged
    /\ UNCHANGED <<MASK, tracer_full_regrid, lateral_filled, warned,
                 ds_refcase>>

\* line 292, and the loop goes on to the next key
LoopStore ==
    /\ pc = "vertical_filled"
    /\ ds_out' = Stored(ds_out, tracername, tracer_full_regrid)
    /\ calls' = Append(calls, [op |-> "store", tracer |-> tracername])
    /\ todo' = Tail(todo)
    /\ pc' = "tracer_loop"
    /\ FeUnchanged
    /\ UNCHANGED <<MASK, tracer_full_regrid, lateral_filled, warned,
                 ds_refcase>>

\* the loop is exhausted
LoopEnd ==
    /\ pc = "tracer_loop"
    /\ todo = <<>>
    /\ pc' = "ic_done"
    /\ FeUnchanged
    /\ UNCHANGED <<MASK, icvars>>

NextIC ==
    \/ CellMaskIC
    \/ LoopRegrid
    \/ LoopLateralFill
    \/ LoopVerticalFill
    \/ LoopStore
    \/ LoopEnd

SpecIC == InitIC /\ [][NextIC]_vars

---------------------------------------------------------------------------
(* Initial-conditions notebook: copy from the refcase restart file the
   tracers not yet in ds_out *)

\* the tracers of the output file; of the 32 names two that the OMIP loop
\* has stored and one that it has not
tracernames == <<"TEMP", "SALT", "Fe">>

\* ds_refcase[tracername+'_CUR']: a field of the restart file, whose cells
\* hold 0.0 on the set zeros and a value of their own elsewhere
RefcaseFile(zeros) ==
    [k \in 1..nk |-> [j \in 1..nj |-> [i \in 1..ni |->
        IF <<k, j, i>> \in zeros THEN 0 ELSE RegridValue(k, j, i)]]]

\* tracer.where(MASK)
WhereMask(field, mask) ==
    [k \in 1..Len(field) |-> [j \in 1..Len(field[k]) |->
        [i \in 1..Len(field[k][j]) |->
            IF mask[k][j][i] THEN field[k][j][i] ELSE NaN]]]

\* every cell that holds 0.0 taken from the level above, bottom-most or not
FloorLevel_AnyZero(tracer, kmt, k) ==
    [j \in 1..Len(tracer[k]) |-> [i \in 1..Len(tracer[k][j]) |->
        IF tracer[k][j][i] = 0 THEN tracer[k - 1][j][i] ELSE tracer[k][j][i]]]

\* the right-hand side of lines 411-412 for the level with model index k,
\* which is the code's k + 1:
\* xr.where((tracer[k] == 0.0) & (k+1 == ds_out.KMT), tracer[k-1], tracer[k])
FloorLevel(tracer, kmt, k) ==
    [j \in 1..Len(tracer[k]) |-> [i \in 1..Len(tracer[k][j]) |->
        IF tracer[k][j][i] = 0 /\ k = kmt[j][i]
        THEN tracer[k - 1][j][i] ELSE tracer[k][j][i]]]

\* the iterations of the loop from model index k on, each one assigning its
\* level in the tracer the next one reads
RECURSIVE FloorFrom(_, _, _)
FloorFrom(tracer, kmt, k) ==
    IF k > Len(tracer) THEN tracer
    ELSE FloorFrom([tracer EXCEPT ![k] = FloorLevel(tracer, kmt, k)],
                   kmt, k + 1)

\* for k in range(1, nk): the code's k = 1 is the model's index 2
FloorLoop(tracer, kmt) == FloorFrom(tracer, kmt, 2)

\* lines 405-412: the tracer that is stored in ds_out
CopiedTracer(file) == FloorLoop(WhereMask(file, MASK), KMT)

\* the tracers the loop copies: if tracername not in ds_out.data_vars
NotInDsOut == {tracernames[n] : n \in 1..Len(tracernames)} \ DOMAIN ds_out

\* the calls the OMIP loop has logged for one tracer
LoopCalls(name) ==
    << [op |-> "regrid", tracer |-> name],
       [op |-> "lateral_fill", tracer |-> name, args |-> LateralFillArgs],
       [op |-> "vertical_fill", tracer |-> name],
       [op |-> "store", tracer |-> name] >>

\* the state the OMIP loop ends in when the remapping left no cell of the
\* mask without data
LoopDoneComplete ==
    /\ pc = "ic_done"
    /\ MASK = ComputeMaskIC
    /\ todo = <<>>
    /\ tracer_full_regrid = Regrid({})
    /\ lateral_filled = Regrid({})
    /\ ds_out = [t \in {omip_metadata[n] : n \in 1..Len(omip_metadata)} |->
                    Regrid({})]
    /\ warned = <<>>
    /\ calls = LoopCalls(omip_metadata[1]) \o LoopCalls(omip_metadata[2])
    /\ ds_refcase = Unassigned

InitRestart ==
    /\ dst_grid = "POP_gx1v7"
    /\ nk \in 1..IcMaxNk
    /\ KMT \in GridsOfShape(IcShape, nk)
    /\ sedfrac = Unassigned
    /\ kmt_neighbors = Unassigned
    /\ land_adjacent = Unassigned
    /\ sedfrac_mod = Unassigned
    /\ LoopDoneComplete
    /\ AsShipped

\* cell "copy from refcase restart file to ds_out tracers not yet in ds_out"
CellCopyRefcase ==
    /\ pc = "ic_done"
    /\ \E zeros \in [NotInDsOut -> SUBSET Cells3D] :
          ds_refcase' = [t \in NotInDsOut |-> RefcaseFile(zeros[t])]
    /\ ds_out' = [t \in (DOMAIN ds_out) \cup NotInDsOut |->
                     IF t \in NotInDsOut THEN CopiedTracer(ds_refcase'[t])
                     ELSE ds_out[t]]
    /\ pc' = "refcase_copied"
    /\ FeUnchanged
    /\ UNCHANGED <<MASK, todo, tracer_full_regrid, lateral_filled, warned,
                   calls>>

NextRestart == CellCopyRefcase

SpecRestart == InitRestart /\ [][NextRestart]_vars

\* The two notebooks up to their mask cells, each on every grid of Shapes:
\* the sediment flux notebook from its sedfrac cell, the initial-conditions
\* notebook from its grid.
InitMask ==
    /\ dst_grid = "POP_gx1v7"
    /\ nk \in 1..MaxNk
    /\ \E s \in Shapes : KMT \in GridsOfShape(s, nk)
    /\ \/ pc = "setup" /\ todo = <<>>
       \/ pc = "ic_grid" /\ todo = omip_metadata
    /\ sedfrac = Unassigned
    /\ MASK = Unassigned
    /\ kmt_neighbors = Unassigned
    /\ land_adjacent = Unassigned
    /\ sedfrac_mod = Unassigned
    /\ tracer_full_regrid = Unassigned
    /\ lateral_filled = Unassigned
    /\ ds_out = <<>>
    /\ warned = <<>>
    /\ calls = <<>>
    /\ ds_refcase = Unassigned
    /\ AsShipped

NextMask ==
    \/ CellReadSedfrac
    \/ CellMask
    \/ CellMaskIC

SpecMask == InitMask /\ [][NextMask]_vars

---------------------------------------------------------------------------
(* The sediment flux notebook from its input cell to its output file.      *)
(* POC fluxes are integers in units of 1e-3 gC/m^2/yr, velocities in cm/s, *)
(* Fe fluxes in units of 1e-8 micromol/m^2/d.                              *)

\* a <= b and a > b on floats: false when either side is NaN
LessEq(a, b) == a # NaN /\ b # NaN /\ a <= b

Greater(a, b) == a # NaN /\ b # NaN /\ a > b

\* a product or a sum of floats: NaN when either side is NaN
Times(a, b) == IF a = NaN \/ b = NaN THEN NaN ELSE a * b

Plus(a, b) == IF a = NaN \/ b = NaN THEN NaN ELSE a + b

\* a float divided by a constant, rounded down to the unit
Over(a, d) == IF a = NaN THEN NaN ELSE a \div d

\* POC_flux_gCm2yr_min and POC_flux_gCm2yr_max, in 1e-3 gC/m^2/yr
POC_flux_gCm2yr_min == 3000

POC_flux_gCm2yr_max == 20000

\* nmolCcm2s_to_gCm2yr = 1e-9 * 12.011 * 1e4 * 365 * 86400 = 3.788, in 1e-3
nmolCcm2s_to_gCm2yr == 3788

western_pacific_factor == 10

\* the settings current_speed_min, current_speed_max that are enumerated:
\* those of the configuration cell and two others with min <= max
SpeedSettings == {<<1, 10>>, <<1, 5>>, <<2, 20>>}

\* coef_fesedflux_POC_flux in units of 1e-5
coef_fesedflux_POC_flux ==
    CASE dst_grid = "POP_gx1v7" -> 2582
      [] dst_grid = "POP_gx3v7" -> 1584
      [] dst_grid = "POP_tx0.1v3" -> 1614

\* coef_fesedflux_current_speed2 in units of 1e-7
coef_fesedflux_current_speed2 ==
    CASE dst_grid = "POP_gx1v7" -> 7882
      [] dst_grid = "POP_gx3v7" -> 8405
      [] dst_grid = "POP_tx0.1v3" -> 6568

\* values of ds.POC_FLUX_IN in 1e-3 nmolC/cm^2/s: missing, zero, converted
\* below the minimum (500), equal to it (792), just above it (793), between
\* the thresholds, equal to the maximum (5280) and above it
PocSeq == <<NaN, 0, 500, 792, 793, 2000, 5280, 6000>>

\* a content of ds.POC_FLUX_IN: the values of PocSeq laid out over the grid
\* from an offset
PocFluxIn(seed) ==
    [k \in 1..nk |-> [j \in 1..nj |-> [i \in 1..ni |->
        PocSeq[((k + 2 * j + 3 * i + seed) % Len(PocSeq)) + 1]]]]

\* ds.POC_FLUX_IN * nmolCcm2s_to_gCm2yr for one cell
PocConvert(x) == Over(Times(x, nmolCcm2s_to_gCm2yr), 1000)

PocThreshold_NoMin(x) ==
    IF Greater(x, POC_flux_gCm2yr_max) THEN POC_flux_gCm2yr_max ELSE x

\* lines 991-992 for one cell
PocThreshold(x) ==
    LET floored == IF LessEq(x, POC_flux_gCm2yr_min) THEN 0 ELSE x
    IN  IF Greater(floored, POC_flux_gCm2yr_max) THEN POC_flux_gCm2yr_max
        ELSE floored

\* lines 990-992
PocFlux(poc_flux_in) ==
    [k \in 1..nk |-> [j \in 1..nj |-> [i \in 1..ni |->
        PocThreshold(PocConvert(poc_flux_in[k][j][i]))]]]

\* ds.TLONG and ds.TLAT: the first column lies in the western Pacific, the
\* others east of it
TLONG == [j \in 1..nj |-> [i \in 1..ni |-> IF i = 1 THEN 150 ELSE 250]]

TLAT == [j \in 1..nj |-> [i \in 1..ni |-> 0]]

\* region_def, lines 1035-1038: 1 or 0 on ocean columns, NaN on land
region_def ==
    [k \in 1..nk |-> [j \in 1..nj |-> [i \in 1..ni |->
        IF KMT[j][i] > 0
        THEN IF /\ 134 <= TLONG[j][i] /\ TLONG[j][i] <= 200
                /\ TLAT[j][i] <= 15 /\ 0 - TLAT[j][i] <= 15
                /\ z_t[k] <= 45000
             THEN 1 ELSE 0
        ELSE NaN]]]

\* multiplication by mmolm2yr_to_umolm2d = 1000 / 365
ToMicromolPerDay(x) == Over(Times(x, 200), 73)

\* lines 1024-1041
FesedfluxReduce(poc_flux, sed_mod) ==
    [k \in 1..nk |-> [j \in 1..nj |-> [i \in 1..ni |->
        LET initial == FillNa0(Times(Over(Times(coef_fesedflux_POC_flux,
                                                poc_flux[k][j][i]), 1000),
                                     sed_mod[k][j][i]))
            converted == ToMicromolPerDay(initial)
        IN  IF region_def[k][j][i] = 1
            THEN converted * western_pacific_factor
            ELSE converted]]]

\* values of ds.UVEL and ds.VVEL, in cm/s: speeds 0, 5, 7, 10, 13, 25 and a
\* missing value
VelSeq == << <<0, 0>>, <<3, 4>>, <<0, 7>>, <<6, 8>>, <<5, 12>>, <<15, 20>>,
            <<NaN, NaN>> >>

\* a content of ds.UVEL (component 1) or ds.VVEL (component 2)
VelFile(seed, component) ==
    [k \in 1..nk |-> [j \in 1..nj |-> [i \in 1..ni |->
        VelSeq[((k + 2 * j + 3 * i + seed) % Len(VelSeq)) + 1][component]]]]

\* np.sqrt, rounded down to the unit
Sqrt(x) ==
    IF x = NaN THEN NaN
    ELSE CHOOSE r \in 0..x : r * r <= x /\ x < (r + 1) * (r + 1)

\* line 1094 for one cell
Speed(u, v) == Sqrt(Plus(Times(u, u), Times(v, v)))

\* lines 1095-1096 for one cell
ClampSpeed(x) ==
    LET raised == IF Less(x, current_speed_min) THEN current_speed_min ELSE x
    IN  IF Greater(raised, 10) THEN current_speed_max ELSE raised

\* lines 1094-1096
CurrentSpeed(u, v) ==
    [k \in 1..nk |-> [j \in 1..nj |-> [i \in 1..ni |->
        ClampSpeed(Speed(u[k][j][i], v[k][j][i]))]]]

\* lines 1108-1109
FesedfluxOxic(sed_mod, speed) ==
    [k \in 1..nk |-> [j \in 1..nj |-> [i \in 1..ni |->
        ToMicromolPerDay(Over(Times(Times(coef_fesedflux_current_speed2,
                                          sed_mod[k][j][i]),
                                    Times(speed[k][j][i], speed[k][j][i])),
                              100))]]]

\* line 1145
FesedfluxTotal(oxic, reduce) ==
    [k \in 1..nk |-> [j \in 1..nj |-> [i \in 1..ni |->
        Plus(oxic[k][j][i], reduce[k][j][i])]]]

\* the horizontal shape of the grids of the whole-notebook runs
FluxShape == <<1, 2>>

\* The notebook before its input cell: any grid of FluxShape, the input file
\* cached or not, any set of model output files present when it is not, a
\* sediment fraction file on the z_t of ds or on another one, any setting of
\* SpeedSettings.
InitFlux ==
    /\ dst_grid \in DstGrids
    /\ nk \in 1..MaxNk
    /\ KMT \in GridsOfShape(FluxShape, nk)
    /\ pc = "config"
    /\ sedfrac = Unassigned
    /\ MASK = Unassigned
    /\ kmt_neighbors = Unassigned
    /\ land_adjacent = Unassigned
    /\ sedfrac_mod = Unassigned
    /\ IcUnassigned
    /\ input_cached \in BOOLEAN
    /\ files_present \in (IF input_cached THEN {variables} ELSE SUBSET variables)
    /\ sedfrac_z_t \in SedfracZtChoices
    /\ \E setting \in SpeedSettings :
          /\ current_speed_min = setting[1]
          /\ current_speed_max = setting[2]
    /\ FluxUnassigned

GridUnchanged ==
    UNCHANGED <<dst_grid, nk, KMT, sedfrac, MASK, kmt_neighbors,
                land_adjacent, sedfrac_mod, icvars>>

InputsUnchanged ==
    UNCHANGED <<input_cached, files_present, sedfrac_z_t, current_speed_min,
                current_speed_max>>

\* input cell, else branch (lines 809-812): the cached file is read into ds
CellReadInputCached ==
    /\ pc = "config"
    /\ input_cached
    /\ pc' = "setup"
    /\ GridUnchanged
    /\ UNCHANGED fluxvars

\* input cell, lines 761-763: a model output file is missing
CellReadInputMissing ==
    /\ pc = "config"
    /\ ~input_cached
    /\ files_present # variables
    /\ pc' = "AssertionError"
    /\ GridUnchanged
    /\ UNCHANGED fluxvars

\* input cell, lines 764-785: the files are read and averaged, then src_grid,
\* which no cell assigns, is read
CellReadInputUncached ==
    /\ pc = "config"
    /\ ~input_cached
    /\ files_present = variables
    /\ pc' = "NameError"
    /\ GridUnchanged
    /\ UNCHANGED fluxvars

\* cell "Read pre-computed fesedfrac" when line 835 raises
CellReadSedfracRaises ==
    /\ pc = "setup"
    /\ ~AssertAllclose(sedfrac_z_t, z_t)
    /\ \E seed \in 0..(Len(SedSeq) - 1) : sedfrac' = SedfracFile(seed)
    /\ pc' = "AssertionError"
    /\ UNCHANGED <<dst_grid, nk, KMT, MASK, kmt_neighbors, land_adjacent,
                   sedfrac_mod, icvars, fluxvars>>

\* cell "Prepare POC_flux"
CellPOCFlux ==
    /\ pc = "sedfrac_mod"
    /\ \E seed \in 0..(Len(PocSeq) - 1) : POC_FLUX_IN' = PocFluxIn(seed)
    /\ POC_flux' = PocFlux(POC_FLUX_IN')
    /\ pc' = "POC_flux"
    /\ GridUnchanged
    /\ InputsUnchanged
    /\ UNCHANGED <<UVEL, VVEL, fesedflux_reduce, current_speed,
                   fesedflux_oxic, fesedflux_total, file_out>>

\* cell "Compute and apply ad hoc scaling in to select regions"
CellFesedfluxReduce ==
    /\ pc = "POC_flux"
    /\ fesedflux_reduce' = FesedfluxReduce(POC_flux, sedfrac_mod)
    /\ pc' = "fesedflux_reduce"
    /\ GridUnchanged
    /\ InputsUnchanged
    /\ UNCHANGED <<POC_FLUX_IN, UVEL, VVEL, POC_flux, current_speed,
                   fesedflux_oxic, fesedflux_total, file_out>>

\* cell of lines 1094-1099
CellCurrentSpeed ==
    /\ pc = "fesedflux_reduce"
    /\ \E seed \in 0..(Len(VelSeq) - 1) :
          /\ UVEL' = VelFile(seed, 1)
          /\ VVEL' = VelFile(seed, 2)
    /\ current_speed' = CurrentSpeed(UVEL', VVEL')
    /\ pc' = "current_speed"
    /\ GridUnchanged
    /\ InputsUnchanged
    /\ UNCHANGED <<POC_FLUX_IN, POC_flux, fesedflux_reduce, fesedflux_oxic,
                   fesedflux_total, file_out>>

\* cell of lines 1108-1112
CellFesedfluxOxic ==
    /\ pc = "current_speed"
    /\ fesedflux_oxic' = FesedfluxOxic(sedfrac_mod, current_speed)
    /\ pc' = "fesedflux_oxic"
    /\ GridUnchanged
    /\ InputsUnchanged
    /\ UNCHANGED <<POC_FLUX_IN, UVEL, VVEL, POC_flux, fesedflux_reduce,
                   current_speed, fesedflux_total, file_out>>

\* cell of lines 1145-1153
CellFesedfluxTotal ==
    /\ pc = "fesedflux_oxic"
    /\ fesedflux_total' = FesedfluxTotal(fesedflux_oxic, fesedflux_reduce)
    /\ pc' = "fesedflux_total"
    /\ GridUnchanged
    /\ InputsUnchanged
    /\ UNCHANGED <<POC_FLUX_IN, UVEL, VVEL, POC_flux, fesedflux_reduce,
                   current_speed, fesedflux_oxic, file_out>>

\* cell "Construct output file", lines 1233-1254
CellWriteOutput ==
    /\ pc = "fesedflux_total"
    /\ file_out' = [FESEDFLUXIN |-> fesedflux_total,
                    FESEDFLUXIN_reduce |-> fesedflux_reduce,
                    FESEDFLUXIN_oxic |-> fesedflux_oxic,
                    KMT |-> KMT, z_t |-> z_t]
    /\ pc' = "done"
    /\ GridUnchanged
    /\ InputsUnchanged
    /\ UNCHANGED <<POC_FLUX_IN, UVEL, VVEL, POC_flux, fesedflux_reduce,
                   current_speed, fesedflux_oxic, fesedflux_total>>

NextFlux ==
    \/ CellReadInputCached
    \/ CellReadInputMissing
    \/ CellReadInputUncached
    \/ CellReadSedfrac
    \/ CellReadSedfracRaises
    \/ CellMask
    \/ CellLandAdjacent
    \/ CellLandAdjacentRaises
    \/ CellApplyFloor
    \/ CellPOCFlux
    \/ CellFesedfluxReduce
    \/ CellCurrentSpeed
    \/ CellFesedfluxOxic
    \/ CellFesedfluxTotal
    \/ CellWriteOutput

SpecFlux == InitFlux /\ [][NextFlux]_vars

---------------------------------------------------------------------------
(* Vocabulary of the properties, in the code's 0-based indices *)

Levels == 0..(nk - 1)

Rows == 0..(nj - 1)

Cols == 0..(ni - 1)

At2(A, j, i) == A[j + 1][i + 1]

At3(A, k, j, i) == A[k + 1][j + 1][i + 1]

\* the cell "Determine land-adjacent points" has run to its end
Classified == pc \in {"land_adjacent", "sedfrac_mod"}

\* the cell "Determine land-adjacent points" has been executed, to its end or
\* to an exception
ClassifierRan == Classified \/ pc = "ValueError"

\* the array of the positions (j, i), to follow where a rolled value comes from
Positions == [j \in 1..nj |-> [i \in 1..ni |-> <<j - 1, i - 1>>]]

\* the position whose depth the n-th neighbour array holds at (j, i)
NeighborSource(j, i, n) ==
    At2(Roll2D(Positions, Rolls[n].jroll, Rolls[n].iroll), j, i)

Corners == 1..Len(Rolls)

\* the neighbour depths of (j, i) that are no deeper than the column itself
QualifyingDepths(j, i) ==
    {d \in {At2(kmt_neighbors, j, i)[n] : n \in Corners} : d <= At2(KMT, j, i)}

SetMin(S) == CHOOSE m \in S : \A x \in S : m <= x

\* rule (a) or rule (b) of the adjacency contract
AdjacencyRule(k, j, i) ==
    \/ /\ QualifyingDepths(j, i) # {}
       /\ k < At2(KMT, j, i)
       /\ k >= SetMin(QualifyingDepths(j, i))
    \/ k = At2(KMT, j, i) - 1

Marked(k, j, i) == At3(land_adjacent, k, j, i) = 1

---------------------------------------------------------------------------
C2_MarkedInsideMask ==
    Classified =>
        \A k \in Levels, j \in Rows, i \in Cols :
            Marked(k, j, i) => k < At2(KMT, j, i)

\* a land column next to water, and a level below the bottom of a wet column
\* that has a side wall, both left unmarked
C2_Witness ==
    /\ Classified
    /\ \E j \in Rows, i \in Cols :
          /\ At2(KMT, j, i) = 0
          /\ \E n \in Corners : At2(kmt_neighbors, j, i)[n] > 0
          /\ \A k \in Levels : ~Marked(k, j, i)
    /\ \E j \in Rows, i \in Cols, k \in Levels :
          /\ At2(KMT, j, i) > 0
          /\ k >= At2(KMT, j, i)
          /\ QualifyingDepths(j, i) # {}
          /\ ~Marked(k, j, i)

\* C3: the longitude is cyclic in the neighbour search: the neighbours of
\* (j, ni-1) include (j, 0) and those of (j, 0) include (j, ni-1), and a cell
\* at i = ni-1 whose neighbour at i = 0 is shallower is marked at every level
\* k with KMT[j,0] <= k < KMT[j,ni-1].
C3_CyclicWrap ==
    Classified =>
        \A j \in Rows :
            /\ \E n \in Corners : NeighborSource(j, ni - 1, n) = <<j, 0>>
            /\ \E n \in Corners : NeighborSource(j, 0, n) = <<j, ni - 1>>
            /\ \A k \in Levels :
                  ( /\ At2(KMT, j, 0) < At2(KMT, j, ni - 1)
                    /\ At2(KMT, j, 0) <= k
                    /\ k < At2(KMT, j, ni - 1) )
                  => Marked(k, j, ni - 1)

\* at least three columns, the only column shallower than the cell at
\* i = ni-1 is the one at i = 0, and the cell is marked above its bottom
C3_Witness ==
    /\ Classified
    /\ ni >= 3
    /\ \E j \in Rows :
          /\ At2(KMT, j, ni - 1) = 2
          /\ At2(KMT, j, 0) = 0
          /\ \A jj \in Rows, i \in Cols : i # 0 => At2(KMT, jj, i) >= 2
          /\ Marked(0, j, ni - 1)

\* C4 as stated: on a non-tripolar grid of at least three rows, no neighbour
\* depth of a cell in row 0 comes from row nj-1 and none of a cell in row
\* nj-1 comes from row 0.
C4_NoWrapInJ ==
    (Classified /\ ~ltripole /\ nj >= 3) =>
        \A i \in Cols, n \in Corners :
            /\ NeighborSource(0, i, n)[1] # nj - 1
            /\ NeighborSource(nj - 1, i, n)[1] # 0

\* C4 as amended: on a non-tripolar grid the shift along j is periodic like
\* the shift along i: the n-th neighbour depth of (j, i) is
\* KMT[(j - jroll) mod nj, (i - iroll) mod ni], so a cell in row 0 receives
\* neighbour depths from row nj-1 and a cell in row nj-1 from row 0.
C4_PeriodicInJ ==
    (Classified /\ ~ltripole) =>
        \A j \in Rows, i \in Cols, n \in Corners :
            At2(kmt_neighbors, j, i)[n] =
                At2(KMT, (j - Rolls[n].jroll) % nj, (i - Rolls[n].iroll) % ni)

\* at least three rows, the only shallow cells are in row nj-1, and a cell of
\* row 0 is marked above its bottom because of them
C4_Witness ==
    /\ Classified
    /\ ~ltripole
    /\ nj >= 3
    /\ \E i \in Cols :
          /\ At2(KMT, 0, i) = 2
          /\ \A j \in Rows, ii \in Cols : j # nj - 1 => At2(KMT, j, ii) >= 2
          /\ \E ii \in Cols : At2(KMT, nj - 1, ii) = 0
          /\ Marked(0, 0, i)

\* C5: once the neighbour cell has been executed with ltripole true, the
\* neighbour arrays are built and, for every x, the cell (0, x) holds among
\* its neighbour depths the depth of (0, ni-1-x), every neighbour depth
\* coming from a position of the grid.
C5_TripoleFoldSeen ==
    (ltripole /\ ClassifierRan) =>
        /\ Classified
        /\ \A x \in Cols :
              /\ \E n \in Corners :
                    /\ NeighborSource(0, x, n) = <<0, ni - 1 - x>>
                    /\ At2(kmt_neighbors, 0, x)[n] = At2(KMT, 0, ni - 1 - x)
              /\ \A n \in Corners : NeighborSource(0, x, n) \in Rows \X Cols

C8_OnlyBottomMarked ==
    Classified =>
        \A j \in Rows, i \in Cols :
            ( /\ At2(KMT, j, i) > 0
              /\ \A n \in Corners : At2(kmt_neighbors, j, i)[n] >= At2(KMT, j, i) )
            => \A k \in Levels : Marked(k, j, i) <=> k = At2(KMT, j, i) - 1

\* a column of two levels with an equally deep neighbour, and a column of two
\* levels with only deeper neighbours: level 1 marked, level 0 not
C8_Witness ==
    /\ Classified
    /\ \E j \in Rows, i \in Cols :
          /\ At2(KMT, j, i) = 2
          /\ \A n \in Corners : At2(kmt_neighbors, j, i)[n] >= 2
          /\ \E n \in Corners : At2(kmt_neighbors, j, i)[n] = 2
          /\ Marked(1, j, i) /\ ~Marked(0, j, i)

\* the grid of the end-to-end scenario has been classified
FixtureClassified ==
    Classified /\ ~ltripole /\ nk = Fixture.nk /\ KMT = Fixture.KMT

\* C9 as stated: on the fixture every wet level-0 cell is marked, level 0 of
\* the centre column included, and level 1 of the centre column is marked.
C9_FixtureAsStated ==
    FixtureClassified =>
        /\ \A j \in Rows, i \in Cols : At2(KMT, j, i) > 0 => Marked(0, j, i)
        /\ Marked(1, 1, 1)

\* C9 as amended: on the fixture the 8 ring cells are marked at level 0, the
\* centre column is marked at level 1 and not at level 0, and nothing is
\* marked at level 2.
C9_FixtureAmended ==
    FixtureClassified =>
        \A k \in Levels, j \in Rows, i \in Cols :
            Marked(k, j, i) <=>
                \/ k = 0 /\ <<j, i>> # <<1, 1>>
                \/ k = 1 /\ <<j, i>> = <<1, 1>>

\* the fixture classified, with its centre marked at level 1
C9_Witness == FixtureClassified /\ Marked(1, 1, 1) /\ ~Marked(0, 1, 1)

\* C10: after the floor is applied, a cell inside the mask holds
\* max(sedfrac, land_adj_sedfrac_min) if it is land-adjacent and sedfrac
\* unchanged if it is not; a cell outside the mask holds 0.
C10_FloorApplied ==
    pc = "sedfrac_mod" =>
        \A k \in Levels, j \in Rows, i \in Cols :
            At3(sedfrac_mod, k, j, i) =
                IF k < At2(KMT, j, i)
                THEN IF Marked(k, j, i)
                     THEN Max2(At3(sedfrac, k, j, i), land_adj_sedfrac_min)
                     ELSE At3(sedfrac, k, j, i)
                ELSE 0

\* floor 0.03: a land-adjacent cell raised from 0.01 to 0.03, a cell that is
\* not land-adjacent left at 0.01, and a cell outside the mask set from a
\* positive fraction to 0
C10_Witness ==
    /\ pc = "sedfrac_mod"
    /\ land_adj_sedfrac_min = 30
    /\ \E k \in Levels, j \in Rows, i \in Cols :
          /\ Marked(k, j, i) /\ k < At2(KMT, j, i)
          /\ At3(sedfrac, k, j, i) = 10 /\ At3(sedfrac_mod, k, j, i) = 30
    /\ \E k \in Levels, j \in Rows, i \in Cols :
          /\ ~Marked(k, j, i) /\ k < At2(KMT, j, i)
          /\ At3(sedfrac, k, j, i) = 10 /\ At3(sedfrac_mod, k, j, i) = 10
    /\ \E k \in Levels, j \in Rows, i \in Cols :
          /\ k >= At2(KMT, j, i)
          /\ At3(sedfrac, k, j, i) > 0 /\ At3(sedfrac_mod, k, j, i) = 0

---------------------------------------------------------------------------
(* The fills of the initial-conditions notebook *)

\* C11: in both notebooks the 3D mask is true at (k, j, i) exactly when
\* k < KMT[j, i]: in every column the true levels are the block 0..KMT-1, and
\* a column with KMT = 0 has none.
C11_MaskIffAboveBottom ==
    LET IsTrue(k, j, i) == IF pc = "MASK" THEN At3(MASK, k, j, i) = 1
                           ELSE At3(MASK, k, j, i) = TRUE
    IN  pc \in {"tracer_loop", "MASK"} =>
          /\ \A k \in Levels, j \in Rows, i \in Cols :
                IsTrue(k, j, i) <=> k < At2(KMT, j, i)
          /\ \A j \in Rows, i \in Cols :
                LET true == {k \in Levels : IsTrue(k, j, i)}
                IN  /\ true = {k \in Levels : k < At2(KMT, j, i)}
                    /\ At2(KMT, j, i) = 0 => true = {}

\* a grid of the initial-conditions notebook with a land column, a column
\* that ends above the last level and a full column, after its mask cell
C11_Witness ==
    /\ pc = "tracer_loop"
    /\ nk = 2
    /\ \E j \in Rows, i \in Cols : At2(KMT, j, i) = 0 /\ At3(MASK, 0, j, i) = FALSE
    /\ \E j \in Rows, i \in Cols :
          At2(KMT, j, i) = 1 /\ At3(MASK, 0, j, i) = TRUE /\ At3(MASK, 1, j, i) = FALSE
    /\ \E j \in Rows, i \in Cols : At2(KMT, j, i) = 2 /\ At3(MASK, 1, j, i) = TRUE

\* a cell of the mask that is missing in a field
MissingInMask(field, k, j, i) ==
    At3(MASK, k, j, i) /\ At3(field, k, j, i) = NaN

\* the vertical fill of the current tracer has run
VerticalFilled == pc = "vertical_filled"

SetMax(S) == CHOOSE m \in S : \A x \in S : m >= x

\* C12: after the vertical fill pass a cell of the mask is still missing only
\* if every cell above it in its column, up to k = 0, was missing before the
\* pass.
C12_MissingOnlyUnderMissing ==
    VerticalFilled =>
       \A k \in Levels, j \in Rows, i \in Cols :
          MissingInMask(tracer_full_regrid, k, j, i) =>
             \A kk \in 0..(k - 1) : At3(lateral_filled, kk, j, i) = NaN

\* a column whose level 1 had data: its level 2 has been filled from it, and
\* its level 0, with nothing above, is still missing
C12_Witness ==
    /\ VerticalFilled
    /\ nk = 3
    /\ \E j \in Rows, i \in Cols :
          /\ MissingInMask(lateral_filled, 0, j, i)
          /\ At3(lateral_filled, 1, j, i) # NaN
          /\ MissingInMask(lateral_filled, 2, j, i)
          /\ At3(tracer_full_regrid, 2, j, i) # NaN
          /\ MissingInMask(tracer_full_regrid, 0, j, i)

\* C13: the pass takes k = 1..nk-1 in increasing order and gives every cell
\* that was missing inside the mask the already-updated value at k-1, so such
\* a cell ends with the value of the nearest shallower cell of its column
\* that was not missing before the pass (and stays missing if there is none).
C13_NearestShallowerValue ==
    VerticalFilled =>
       \A k \in Levels \ {0}, j \in Rows, i \in Cols :
          MissingInMask(lateral_filled, k, j, i) =>
             LET above == {kk \in 0..(k - 1) : At3(lateral_filled, kk, j, i) # NaN}
             IN  /\ At3(tracer_full_regrid, k, j, i)
                      = At3(tracer_full_regrid, k - 1, j, i)
                 /\ above # {} =>
                       At3(tracer_full_regrid, k, j, i)
                          = At3(lateral_filled, SetMax(above), j, i)
                 /\ above = {} => At3(tracer_full_regrid, k, j, i) = NaN

\* a run of two missing levels under a valid level 0 has taken the value of
\* level 0 at both levels
C13_Witness ==
    /\ VerticalFilled
    /\ nk = 3
    /\ \E j \in Rows, i \in Cols :
          /\ At3(lateral_filled, 0, j, i) # NaN
          /\ MissingInMask(lateral_filled, 1, j, i)
          /\ MissingInMask(lateral_filled, 2, j, i)
          /\ At3(tracer_full_regrid, 1, j, i) = At3(lateral_filled, 0, j, i)
          /\ At3(tracer_full_regrid, 2, j, i) = At3(lateral_filled, 0, j, i)

\* C14: the vertical fill is idempotent: applied to its own output it changes
\* nothing.
C14_Idempotent ==
    VerticalFilled =>
       VerticalFill(tracer_full_regrid, MASK) = tracer_full_regrid

\* the pass has filled a run of two levels; applying it again keeps them
C14_Witness ==
    /\ VerticalFilled
    /\ nk = 3
    /\ tracer_full_regrid # lateral_filled
    /\ \E j \in Rows, i \in Cols :
          /\ At3(lateral_filled, 0, j, i) # NaN
          /\ MissingInMask(lateral_filled, 1, j, i)
          /\ MissingInMask(lateral_filled, 2, j, i)
          /\ At3(tracer_full_regrid, 2, j, i) # NaN

\* the tracers a warning has named
Warned == {warned[n] : n \in 1..Len(warned)}

\* C15: a warning names the tracer exactly when a cell of the mask is still
\* missing after the fills; the warning does not stop the run: the field is
\* stored with its gaps and the loop goes on, so at the end of the loop every
\* tracer of omip_metadata is stored.
C15_WarnIffStillMissing ==
    /\ VerticalFilled =>
          (tracername \in Warned
              <=> AnyTrue(Unfilled(tracer_full_regrid, MASK)))
    /\ \A t \in DOMAIN ds_out :
          t \in Warned <=> AnyTrue(Unfilled(ds_out[t], MASK))
    /\ \A t \in Warned :
          t \in DOMAIN ds_out \/ (VerticalFilled /\ t = tracername)
    /\ pc = "ic_done" =>
          DOMAIN ds_out = {omip_metadata[n] : n \in 1..Len(omip_metadata)}

\* the first tracer was warned about and stored with a gap, and the loop
\* went on to store the second one, complete, without a warning
C15_Witness ==
    /\ pc = "ic_done"
    /\ Warned = {omip_metadata[1]}
    /\ AnyTrue(Unfilled(ds_out[omip_metadata[1]], MASK))
    /\ omip_metadata[2] \in DOMAIN ds_out
    /\ ~AnyTrue(Unfilled(ds_out[omip_metadata[2]], MASK))
    /\ AnyTrue(MASK)

\* C16: the lateral fill of every regridded tracer is called with the 3D mask
\* and the tripolar flag; the vertical fill comes only after the lateral fill
\* has returned and works on its result; the tracer is stored only after
\* both.
C16_FillOrder ==
    /\ \A n \in 1..Len(calls) :
          /\ calls[n].op = "lateral_fill" =>
                /\ calls[n].args.mask = MASK
                /\ Len(calls[n].args.mask) = nk
                /\ calls[n].args.ltripole = ltripole_IC
                /\ n > 1
                /\ calls[n - 1] = [op |-> "regrid", tracer |-> calls[n].tracer]
          /\ calls[n].op = "vertical_fill" =>
                /\ n > 1
                /\ calls[n - 1].op = "lateral_fill"
                /\ calls[n - 1].tracer = calls[n].tracer
          /\ calls[n].op = "store" =>
                /\ n > 2
                /\ calls[n - 1] = [op |-> "vertical_fill", tracer |-> calls[n].tracer]
                /\ calls[n - 2].op = "lateral_fill"
                /\ calls[n - 2].tracer = calls[n].tracer
    /\ \A t \in DOMAIN ds_out :
          \E n \in 1..Len(calls) : calls[n] = [op |-> "store", tracer |-> t]
    /\ VerticalFilled =>
          tracer_full_regrid = VerticalFill(lateral_filled, MASK)
    /\ (pc = "tracer_loop" /\ calls # <<>>) =>
          ds_out[calls[Len(calls)].tracer] = VerticalFill(lateral_filled, MASK)

\* both tracers are stored, each after its lateral and its vertical fill, and
\* the vertical fill of the last one changed what the lateral fill returned
C16_Witness ==
    /\ pc = "ic_done"
    /\ Len(calls) = 4 * Len(omip_metadata)
    /\ calls[2].op = "lateral_fill" /\ calls[3].op = "vertical_fill"
    /\ calls[4].op = "store"
    /\ ds_out[omip_metadata[2]] # lateral_filled

---------------------------------------------------------------------------
(* The run of the sediment flux notebook *)

\* no cell after the sediment fraction cell has run
NothingAfterSedfrac ==
    /\ MASK = Unassigned
    /\ kmt_neighbors = Unassigned
    /\ land_adjacent = Unassigned
    /\ sedfrac_mod = Unassigned
    /\ FluxUnassigned

\* C17: a fatal condition stops the run where it is detected: with a model
\* output file missing (and no cached input file) the run never leaves the
\* input cell, with a sediment fraction file on another z_t it never gets
\* past the sediment fraction cell, and in both cases no later cell runs and
\* no output file is written.
C17_FatalHalts ==
    /\ (~input_cached /\ files_present # variables) =>
          /\ pc \in {"config", "AssertionError"}
          /\ sedfrac = Unassigned
          /\ NothingAfterSedfrac
    /\ (input_cached /\ sedfrac_z_t # z_t) =>
          /\ pc \in {"config", "setup", "AssertionError"}
          /\ NothingAfterSedfrac
    /\ pc = "AssertionError" => file_out = Unassigned /\ NothingAfterSedfrac

\* the run has stopped at line 835: the sediment fraction has been read from
\* a file on another z_t, and nothing after it has run
C17_Witness ==
    /\ pc = "AssertionError"
    /\ input_cached
    /\ sedfrac_z_t # z_t
    /\ sedfrac # Unassigned
    /\ file_out = Unassigned

\* the POC flux has been prepared
PocPrepared ==
    pc \in {"POC_flux", "fesedflux_reduce", "current_speed", "fesedflux_oxic",
            "fesedflux_total", "done"}

\* the converted POC flux of a cell, before the thresholds
PocConverted(k, j, i) == PocConvert(At3(POC_FLUX_IN, k, j, i))

\* C18: the thresholds on the converted POC flux: a value strictly below
\* POC_flux_gCm2yr_min becomes 0, a value above POC_flux_gCm2yr_max becomes
\* POC_flux_gCm2yr_max, and every other value, the one equal to the minimum
\* included, is unchanged.
C18_ThresholdsAsDocumented ==
    PocPrepared =>
       \A k \in Levels, j \in Rows, i \in Cols :
          LET x == PocConverted(k, j, i)
              y == At3(POC_flux, k, j, i)
          IN  /\ Less(x, POC_flux_gCm2yr_min) => y = 0
              /\ Greater(x, POC_flux_gCm2yr_max) => y = POC_flux_gCm2yr_max
              /\ (~Less(x, POC_flux_gCm2yr_min)
                    /\ ~Greater(x, POC_flux_gCm2yr_max)) => y = x

\* fesedflux_reduce has been computed
ReduceComputed ==
    pc \in {"fesedflux_reduce", "current_speed", "fesedflux_oxic",
            "fesedflux_total", "done"}

\* C19: in the final fesedflux_reduce a cell whose converted POC flux is
\* below POC_flux_gCm2yr_min is 0, inside the western Pacific region too, and
\* a cell outside the ocean mask is 0.
C19_ReduceZero ==
    ReduceComputed =>
       \A k \in Levels, j \in Rows, i \in Cols :
          /\ Less(PocConverted(k, j, i), POC_flux_gCm2yr_min) =>
                At3(fesedflux_reduce, k, j, i) = 0
          /\ k >= At2(KMT, j, i) => At3(fesedflux_reduce, k, j, i) = 0

\* a cell of the western Pacific region with sediment and a POC flux below
\* the minimum is 0, a cell below the bottom of its column with sediment in
\* the file and a POC flux above the minimum is 0, and another cell is not 0
C19_Witness ==
    /\ ReduceComputed
    /\ \E k \in Levels, j \in Rows, i \in Cols :
          /\ At3(region_def, k, j, i) = 1
          /\ At3(sedfrac_mod, k, j, i) > 0
          /\ PocConverted(k, j, i) > 0
          /\ Less(PocConverted(k, j, i), POC_flux_gCm2yr_min)
          /\ At3(fesedflux_reduce, k, j, i) = 0
    /\ \E k \in Levels, j \in Rows, i \in Cols :
          /\ k >= At2(KMT, j, i)
          /\ At3(sedfrac, k, j, i) > 0
          /\ Greater(PocConverted(k, j, i), POC_flux_gCm2yr_min)
          /\ At3(fesedflux_reduce, k, j, i) = 0
    /\ \E k \in Levels, j \in Rows, i \in Cols :
          At3(fesedflux_reduce, k, j, i) > 0

\* the current speed has been computed
SpeedComputed ==
    pc \in {"current_speed", "fesedflux_oxic", "fesedflux_total", "done"}

\* C20: for every setting with current_speed_min <= current_speed_max, a
\* speed below current_speed_min becomes current_speed_min, a speed above
\* current_speed_max becomes current_speed_max, and a speed between them is
\* unchanged.
C20_ClampAsDocumented ==
    (SpeedComputed /\ current_speed_min <= current_speed_max) =>
       \A k \in Levels, j \in Rows, i \in Cols :
          LET x == Speed(At3(UVEL, k, j, i), At3(VVEL, k, j, i))
              y == At3(current_speed, k, j, i)
          IN  /\ Less(x, current_speed_min) => y = current_speed_min
              /\ Greater(x, current_speed_max) => y = current_speed_max
              /\ (~Less(x, current_speed_min)
                    /\ ~Greater(x, current_speed_max)) => y = x

---------------------------------------------------------------------------
OxicComputed == pc \in {"fesedflux_oxic", "fesedflux_total", "done"}

\* C21: the oxic flux is computed from the sediment fraction as it is before
\* the land-adjacent floor is applied: at every cell of the ocean mask
\* fesedflux_oxic is coefficient * sedfrac * current_speed**2 (in micromol
\* per m2 per day), so it does not depend on land_adj_sedfrac_min or on the
\* land-adjacency classification.
C21_OxicFromUnmodifiedSedfrac ==
    OxicComputed =>
       \A k \in Levels, j \in Rows, i \in Cols :
          At3(MASK, k, j, i) = 1 =>
             At3(fesedflux_oxic, k, j, i)
                = At3(FesedfluxOxic(sedfrac, current_speed), k, j, i)

---------------------------------------------------------------------------
\* the array that was shifted to fill kmt_neighbors is `rollable`
RolledFrom(rollable) ==
    /\ Classified
    /\ kmt_neighbors = KmtNeighbors(rollable)

\* C22: on a tripolar grid the classifier runs to its end and the depth array
\* it shifts to build the 8 neighbour arrays is KMT with row 0 replaced by
\* that same row reversed along i, every other row unchanged.
C22_Row0ReversedIsRolled ==
    (ltripole /\ ClassifierRan) =>
        RolledFrom([j \in 1..nj |-> [i \in 1..ni |->
                       IF j = 1 THEN At2(KMT, 0, ni - i) ELSE KMT[j][i]]])

\* C23: on a tripolar grid the classifier runs to its end and the depth array
\* it shifts is KMT with row 0 replaced by the top row nj-1 flipped
\* left-to-right: rollable[0, i] = KMT[nj-1, ni-1-i] for every i.
C23_TopRowFoldedIsRolled ==
    (ltripole /\ ClassifierRan) =>
        RolledFrom([j \in 1..nj |-> [i \in 1..ni |->
                       IF j = 1 THEN At2(KMT, nj - 1, ni - i) ELSE KMT[j][i]]])

---------------------------------------------------------------------------
\* the depth of the n-th neighbour of (j, i), read from KMT at the position
\* the periodic roll by (jroll, iroll) brings to (j, i)
NeighborDepth(j, i, n) ==
    At2(KMT, (j - Rolls[n].jroll) % nj, (i - Rolls[n].iroll) % ni)

\* C25: the classifier is equivalent to the direct neighbour test: a cell
\* (k,j,i) is marked exactly when k < KMT[j,i] and (one of the 8 neighbours
\* has depth <= k, or k = KMT[j,i] - 1); and the side_wall_present conjunct
\* is redundant: with it replaced by True the condition has the same value
\* at every cell.
C25_DirectNeighbourTest ==
    Classified =>
        LET present == SideWallPresent(kmt_neighbors, KMT)
            kmt_min == SideWallKmtMin(kmt_neighbors)
        IN  \A k \in Levels, j \in Rows, i \in Cols :
                /\ Marked(k, j, i) <=>
                      /\ k < At2(KMT, j, i)
                      /\ \/ \E n \in Corners : NeighborDepth(j, i, n) <= k
                         \/ k = At2(KMT, j, i) - 1
                /\ LandAdjacentCond(k, At2(present, j, i), At2(kmt_min, j, i),
                                    At2(KMT, j, i))
                      <=> LandAdjacentCond(k, TRUE, At2(kmt_min, j, i),
                                           At2(KMT, j, i))

\* a column of two levels marked at level 0 because of a land neighbour,
\* and a column of one level with a side wall, unmarked below its bottom
C25_Witness ==
    /\ Classified
    /\ nk = 2
    /\ \E j \in Rows, i \in Cols :
          /\ At2(KMT, j, i) = 2
          /\ \E n \in Corners : NeighborDepth(j, i, n) = 0
          /\ Marked(0, j, i)
    /\ \E j \in Rows, i \in Cols :
          /\ At2(KMT, j, i) = 1
          /\ At2(SideWallPresent(kmt_neighbors, KMT), j, i)
          /\ ~Marked(1, j, i)

---------------------------------------------------------------------------
\* C26: wherever a column has a neighbour no deeper than itself, the minimum
\* over all 8 neighbour depths (side_wall_kmt_min) equals the minimum over
\* the qualifying neighbour depths only, and the condition of the classifier
\* has the same value at every level with either minimum.
C26_MinOverAllIsMinOverQualifying ==
    Classified =>
        LET side_wall_present == SideWallPresent(kmt_neighbors, KMT)
            side_wall_kmt_min == SideWallKmtMin(kmt_neighbors)
        IN  \A j \in Rows, i \in Cols :
              LET present == At2(side_wall_present, j, i)
                  kmt_min == At2(side_wall_kmt_min, j, i)
              IN  /\ present <=> QualifyingDepths(j, i) # {}
                  /\ present =>
                        /\ kmt_min = SetMin(QualifyingDepths(j, i))
                        /\ \A k \in Levels :
                              LandAdjacentCond(k, present, kmt_min,
                                               At2(KMT, j, i))
                                <=> LandAdjacentCond(k, present,
                                                     SetMin(QualifyingDepths(j, i)),
                                                     At2(KMT, j, i))
                  /\ \A k \in Levels :
                        Marked(k, j, i) <=>
                           LandAdjacentCond(k, present, kmt_min, At2(KMT, j, i))

\* a column with a deeper neighbour, which does not qualify, and a shallower
\* one, which does: the two minima range over different sets of depths
C26_Witness ==
    /\ Classified
    /\ \E j \in Rows, i \in Cols :
          /\ At2(KMT, j, i) = 1
          /\ \E n \in Corners : At2(kmt_neighbors, j, i)[n] = 2
          /\ \E n \in Corners : At2(kmt_neighbors, j, i)[n] = 0
          /\ {At2(kmt_neighbors, j, i)[n] : n \in Corners}
                # QualifyingDepths(j, i)
          /\ Marked(0, j, i)

---------------------------------------------------------------------------
\* the levels of the column (j, i) that are marked land-adjacent
MarkedLevels(j, i) == {k \in Levels : Marked(k, j, i)}

\* C27: in every wet column the marked levels are a non-empty contiguous
\* block that ends at the bottom-most wet level: exactly the levels k with
\* min(m, KMT[j,i]-1) <= k <= KMT[j,i]-1, m being the smallest depth among
\* the 8 neighbours.
C27_MarkedBlockEndsAtBottom ==
    Classified =>
        \A j \in Rows, i \in Cols :
            At2(KMT, j, i) > 0 =>
                LET m      == SetMin({NeighborDepth(j, i, n) : n \in Corners})
                    bottom == At2(KMT, j, i) - 1
                IN  /\ MarkedLevels(j, i) = Min2(m, bottom)..bottom
                    /\ MarkedLevels(j, i) # {}

\* a column of two levels next to land, marked at both levels, and beside
\* it a column of one level, marked at its only level
C27_Witness ==
    /\ Classified
    /\ \E j \in Rows, i \in Cols :
          /\ At2(KMT, j, i) = 2
          /\ \E n \in Corners : NeighborDepth(j, i, n) = 0
          /\ MarkedLevels(j, i) = {0, 1}
    /\ \E j \in Rows, i \in Cols :
          /\ At2(KMT, j, i) = 1
          /\ MarkedLevels(j, i) = {0}

---------------------------------------------------------------------------
\* the positions next to (j, i) in the 8 directions, the longitude taken
\* cyclically and the rows beyond the first and the last left out
LonWrapNeighbours(j, i) ==
    {<<j + dj, (i + di) % ni>> : dj \in {-1, 0, 1}, di \in {-1, 0, 1}}
        \cap ((Rows \X Cols) \ {<<j, i>>})

\* C28: a wet column with a land column (KMT = 0) among its 8 neighbours,
\* the longitude being cyclic, is marked at every one of its wet levels
\* k in [0, KMT[j,i]).
C28_NextToLandMarkedThroughout ==
    Classified =>
        \A j \in Rows, i \in Cols :
            ( /\ At2(KMT, j, i) > 0
              /\ \E p \in LonWrapNeighbours(j, i) : At2(KMT, p[1], p[2]) = 0 )
            => \A k \in Levels : k < At2(KMT, j, i) => Marked(k, j, i)

\* a column of two levels at i = 0 whose only land neighbour lies across the
\* seam at i = ni-1, marked at both of its levels
C28_Witness ==
    /\ Classified
    /\ ni >= 3
    /\ \E j \in Rows :
          /\ At2(KMT, j, 0) = 2
          /\ \A jj \in Rows, i \in Cols :
                At2(KMT, jj, i) = 0 <=> i = ni - 1
          /\ <<j, ni - 1>> \in LonWrapNeighbours(j, 0)
          /\ Marked(0, j, 0) /\ Marked(1, j, 0)

---------------------------------------------------------------------------
\* the step of the vertical fill pass
VerticalFillStep == pc = "lateral_filled" /\ pc' = "vertical_filled"

\* C29: the vertical fill changes only cells that were missing and inside
\* the ocean mask when the pass started: a cell that held a value, a cell
\* outside the mask and every cell of the surface level k = 0 keep what they
\* held, MASK and KMT are unchanged, and when no cell of the mask is missing
\* after the lateral fill the whole field is unchanged and no warning is
\* issued.
C29_VerticalFillFrame ==
    [][VerticalFillStep =>
         /\ \A k \in Levels, j \in Rows, i \in Cols :
               (~MissingInMask(tracer_full_regrid, k, j, i) \/ k = 0) =>
                  At3(tracer_full_regrid', k, j, i)
                     = At3(tracer_full_regrid, k, j, i)
         /\ MASK' = MASK
         /\ KMT' = KMT
         /\ (\A k \in Levels, j \in Rows, i \in Cols :
                ~MissingInMask(tracer_full_regrid, k, j, i)) =>
               /\ tracer_full_regrid' = tracer_full_regrid
               /\ warned' = warned]_vars

\* after a pass that filled a cell: a missing surface cell of the mask is
\* still missing, a cell with a value has kept it, and a missing cell below
\* the bottom of a column, under a cell with a value, is still missing
C29_Witness ==
    /\ VerticalFilled
    /\ \E k \in Levels, j \in Rows, i \in Cols :
          /\ MissingInMask(lateral_filled, k, j, i)
          /\ At3(tracer_full_regrid, k, j, i) # NaN
    /\ \E j \in Rows, i \in Cols :
          /\ MissingInMask(lateral_filled, 0, j, i)
          /\ MissingInMask(tracer_full_regrid, 0, j, i)
    /\ \E k \in Levels, j \in Rows, i \in Cols :
          /\ k > 0
          /\ ~At3(MASK, k, j, i)
          /\ At3(lateral_filled, k - 1, j, i) # NaN
          /\ At3(lateral_filled, k, j, i) = NaN
          /\ At3(tracer_full_regrid, k, j, i) = NaN

---------------------------------------------------------------------------
\* the copy from the restart file has run
RefcaseCopied == pc = "refcase_copied"

\* the value of a cell of the tracer t when the loop over k starts: that of
\* the restart file inside the ocean mask, missing outside
BeforeFloorFix(t, k, j, i) ==
    IF At3(MASK, k, j, i) THEN At3(ds_refcase[t], k, j, i) ELSE NaN

\* C24: after the loop over k = 1 .. nk-1 of the restart-file floor fix, in
\* every column with KMT >= 2 whose bottom-most wet cell (k = KMT-1) held
\* 0.0, that cell holds the value of the cell one layer shallower; every
\* other cell of the tracer (non-bottom cells, bottom cells with a non-zero
\* value, columns with KMT <= 1) is unchanged.
C24_FloorFix ==
    RefcaseCopied =>
       \A t \in DOMAIN ds_refcase :
          \A k \in Levels, j \in Rows, i \in Cols :
             IF /\ At2(KMT, j, i) >= 2
                /\ k = At2(KMT, j, i) - 1
                /\ BeforeFloorFix(t, k, j, i) = 0
             THEN /\ At3(ds_out[t], k, j, i) = BeforeFloorFix(t, k - 1, j, i)
                  /\ At3(ds_out[t], k, j, i) = At3(ds_out[t], k - 1, j, i)
             ELSE At3(ds_out[t], k, j, i) = BeforeFloorFix(t, k, j, i)

\* a column of three levels whose bottom-most cell held 0.0 and now holds
\* the value of the cell above it, while the 0.0 of its surface cell is
\* kept, next to a column of one level whose only cell keeps its 0.0
C24_Witness ==
    /\ RefcaseCopied
    /\ nk = 3
    /\ \E t \in DOMAIN ds_refcase : \E j \in Rows, i, ii \in Cols :
          /\ At2(KMT, j, i) = 3
          /\ At3(ds_refcase[t], 2, j, i) = 0
          /\ At3(ds_refcase[t], 1, j, i) # 0
          /\ At3(ds_out[t], 2, j, i) = At3(ds_refcase[t], 1, j, i)
          /\ At3(ds_refcase[t], 0, j, i) = 0
          /\ At3(ds_out[t], 0, j, i) = 0
          /\ At2(KMT, j, ii) = 1
          /\ At3(ds_refcase[t], 0, j, ii) = 0
          /\ At3(ds_out[t], 0, j, ii) = 0

====
